---------------------------- MODULE Spec2Model ----------------------------
(***************************************************************************)
(* Download pipeline of descarga.py: descargar_archivo (the retrying       *)
(* fetcher and its nested file_lock), remove_stale_lock_files,             *)
(* descargar_en_paralelo, descargar_y_consolidar and                       *)
(* consolidar_archivos_descargados.                                        *)
(*                                                                         *)
(* Platform.  descarga.py imports msvcrt at module level (line 19), so the *)
(* program only runs on Windows.  There os.open and open() create handles  *)
(* without delete sharing: os.remove and os.replace of a file that some    *)
(* handle still holds open raise PermissionError (an OSError, errno        *)
(* EACCES), the outcome the code handles at lines 118, 211, 235 and 314.   *)
(*                                                                         *)
(* Time.  Seconds of backoff are integers; random.uniform is sampled at    *)
(* its end points.  The lock wait is counted in polls of                   *)
(* LOCK_WAIT_INTERVAL; a lock file's age is abstracted to "older than      *)
(* STALE_LOCK_MAX_AGE or not".  DIRECT_DOWNLOAD is left at its default     *)
(* (false): the body is streamed in chunks.                                *)
(***************************************************************************)
EXTENDS Integers, Sequences, FiniteSets, TLC

\* ---------------------------------------------------------------- bounds
\* Chunks in a complete response body.
BodyChunks == 2
\* Failures the environment may inject while two invocations race (Spec).
RaceFaults == 1
\* Failures the environment may inject into a single invocation (SpecFetch).
FetchFaults == 6
\* LOCK_WAIT_TIMEOUT / LOCK_WAIT_INTERVAL, in polls.
LockWaitPolls == 1
\* Attempts of each invocation that Spec follows while two invocations race.
RaceAttempts == 2
\* Partitions planned per category (8 years x 7 statuses in the code).
TasksPerCategory == 2
\* Failures the environment may inject during one batch (SpecBatch).
BatchFaults == 1
\* Attempts of each task that SpecBatch follows.
BatchAttempts == 2
\* Data rows of a partition file read during a batch (SpecBatch).
BatchRows == 0
\* Files handed to one consolidation, and data rows of each (SpecCons).
MaxFiles == 3
MaxRows == 2
\* Calls of generar_urls_por_partes that SpecPlan follows.
PlanCalls == 2

\* ------------------------------------------------------ program constants
retries == 5
retry_delay == 5
RenamePause == 1
ExtraMin == 5
ExtraMax == 15

\* Invocations of descargar_archivo that may be alive at once: the threads
\* of the pool (DEFAULT_WORKERS = 2, line 43).
Inv == {1, 2}

\* crear_carpetas makes a folder for these categories (line 65) ...
tipos_tramite == <<58, 57>>
\* ... and generar_urls_por_partes plans these (line 144).
planned_tipos == <<58, 57, 317, 55>>
Categories == {58, 57, 317, 55}
ModuleNames == {"CCM", "PRR"}
module_name_to_id(name) == IF name = "CCM" THEN 58 ELSE 57

\* folders[tipo]/{anio}_{estado}.csv, the n-th partition of a category.
PathOf(tipo, n) == (IF tipo = 58 THEN 0 ELSE TasksPerCategory) + n
Paths == 1..(2 * TasksPerCategory)

VARIABLES
    STALE_LOCK_MAX_AGE, \* configuration read at import (line 52)
    budget,             \* failures the environment may still inject
    horizon,            \* attempts of an invocation the specification follows
    max_rows,           \* data rows a partition file may hold
    fetch,              \* fetch[i]: the frame of invocation i of descargar_archivo
    lock,               \* lock[p]: the file p + ".lock"
    tmp,                \* tmp[p]: the file p + ".tmp"
    dest,               \* dest[p]: the file p
    batch,              \* the frame of descargar_y_consolidar
    par,                \* the frame of descargar_en_paralelo
    cons,               \* the frame of consolidar_archivos_descargados
    progress,           \* the values passed to progress_callback, in order
    plan,               \* the frame of generar_urls_por_partes
    gui                 \* MainWindow.is_running and DownloadManager._cancelled

conf_vars == <<STALE_LOCK_MAX_AGE, horizon, max_rows>>
file_vars == <<lock, tmp, dest>>
batch_vars == <<batch, par, cons, progress>>
vars == <<conf_vars, budget, fetch, file_vars, batch_vars, plan, gui>>

None == <<>>
\* A lock file: the descriptors open on it, whether it is older than
\* STALE_LOCK_MAX_AGE, and the invocation whose os.open created it (0: a
\* process that is gone).
NoLock == [exists |-> FALSE, open |-> {}, old |-> FALSE, by |-> 0]
NoTmp == [exists |-> FALSE, size |-> 0, open |-> {}]

\* The frame of an invocation that has not been called yet.
\*   pc               position in descargar_archivo
\*   output_path      the destination; overwrite: the overwrite argument
\*   attempt          loop variable of "for attempt in range(retries)"
\*   waited           polls slept in file_lock since start_wait
\*   after            where control goes once file_lock has released
\*   total_size       int(content-length), 0 when not advertised
\*   bytes_downloaded chunks written through this invocation's handle
\*   e                the exception raised in the current attempt
\*   last_exception   last_exception
\*   sleep_time       seconds of the sleep in progress (0: not sleeping)
\*   requests, sleeps session.get calls issued; sleeps between two attempts
\*                    completed (the backoff of line 351, the pause of line 318)
\*   reported         error_callback has been called
\*   final_error      exception named in the closing "Descarga fallida"
\*   result           "none" | "True" | "False"
\*   task             position of the task in the batch (0: not from a batch)
Frame(path, ow) ==
    [pc |-> "idle", output_path |-> path, overwrite |-> ow, attempt |-> 0,
     waited |-> 0, after |-> "open_tmp", total_size |-> 0, bytes_downloaded |-> 0,
     e |-> None, last_exception |-> None, sleep_time |-> 0, requests |-> 0,
     sleeps |-> 0, reported |-> FALSE, final_error |-> None, result |-> "none",
     task |-> 0]

\* --------------------------------------------------------------- errors
\* str(e) as a sequence of characters.
DigitChar(d) == <<"0", "1", "2", "3", "4", "5", "6", "7", "8", "9">>[d + 1]
Digits(n) == <<DigitChar(n \div 100), DigitChar((n \div 10) % 10), DigitChar(n % 10)>>

\* HTTP statuses the server answers with besides 200.
ErrorStatuses == {401, 404, 503}

\* Texts of a connection failure: urllib3 names the connection object by
\* its address, which may hold any digits.
NetTexts == {<<"r", "e", "f", "u", "s", "e", "d">>, <<"0", "x", "7", "5", "0", "4", "a">>}

HTTPError(s) == [type |-> "RequestException", status |-> s,
                 text |-> Digits(s) \o <<" ", "E", "r", "r", "o", "r">>]
NetError(t) == [type |-> "RequestException", status |-> 0, text |-> t]
SizeMismatch == [type |-> "RequestException", status |-> 0,
                 text |-> <<"s", "i", "z", "e">>]
AuthError == [type |-> "PermissionError", status |-> 401,
              text |-> <<"N", "T", "L", "M", " ">> \o Digits(401)]
RenameError == [type |-> "OSError", status |-> 0, text |-> <<"E", "A", "C", "C", "E", "S">>]
LockTimeout == [type |-> "OSError", status |-> 0, text |-> <<"l", "o", "c", "k", "e", "d">>]
NotFound == [type |-> "OSError", status |-> 0, text |-> <<"E", "N", "O", "E", "N", "T">>]

\* What session.get and the status checks of lines 268-271 can raise.
GetErrors == {IF s = 401 THEN AuthError ELSE HTTPError(s) : s \in ErrorStatuses}
             \cup {NetError(t) : t \in NetTexts}

\* pat in text
Contains(text, pat) ==
    \E k \in 0..(Len(text) - Len(pat)) :
        \A j \in 1..Len(pat) : text[k + j] = pat[j]

\* "503" in str(e) or "502" in str(e) or "504" in str(e)
IsServerErrorText(e) ==
    \/ Contains(e.text, Digits(503))
    \/ Contains(e.text, Digits(502))
    \/ Contains(e.text, Digits(504))

RECURSIVE Pow2(_)
Pow2(n) == IF n = 0 THEN 1 ELSE 2 * Pow2(n - 1)

\* retry_delay * (2 ** attempt) + jitter [+ random.uniform(5, 15)]
SleepTimes(a, e) ==
    {retry_delay * Pow2(a) + jitter + extra :
        jitter \in {0, 1},
        extra \in IF IsServerErrorText(e) THEN {ExtraMin, ExtraMax} ELSE {0}}

\* ---------------------------------------------------------- file system
\* os.remove with POSIX semantics: an open file can be unlinked.
CanRemoveOpen(f) == f.exists

\* os.remove succeeds on an existing file that no handle holds open.
CanRemove(f) == f.exists /\ f.open = {}

\* A staleness test that holds of every lock file.
IsStaleAlways(f) == TRUE

\* STALE_LOCK_MAX_AGE <= 0 or age > STALE_LOCK_MAX_AGE
IsStale(f) == STALE_LOCK_MAX_AGE <= 0 \/ (f.exists /\ f.old)

\* Remove the temp file if it exists (the except: pass swallows a failure).
CleanTmp(p) == IF CanRemove(tmp[p]) THEN [tmp EXCEPT ![p] = NoTmp] ELSE tmp

Max(a, b) == IF a >= b THEN a ELSE b

\* What the destination holds once a temp file of this size is renamed on it.
Committed(size) == IF size = BodyChunks THEN "full" ELSE "partial"

\* ------------------------------------------------------ descargar_archivo
\* Lines 368-371: after the loop, name the last exception and return False.
AfterLoop(f) ==
    [f EXCEPT !.pc = "done", !.result = "False",
              !.reported = @ \/ f.last_exception # None,
              !.final_error = f.last_exception]

\* "continue": the next iteration of line 238, or the code after the loop.
\* start_wait is taken when file_lock is entered.
Continue(f) ==
    IF f.attempt + 1 < retries
    THEN [f EXCEPT !.attempt = @ + 1, !.pc = "os_open", !.waited = 0, !.e = None,
                   !.sleep_time = 0]
    ELSE AfterLoop([f EXCEPT !.attempt = @ + 1, !.sleep_time = 0])

\* The specification follows the next attempt of this invocation.
WithinHorizon(f) == f.attempt + 1 < horizon \/ f.attempt + 1 >= retries

\* Entry that does not look at the destination.
descargar_archivo_always(i) ==
    /\ fetch[i].pc = "idle"
    /\ fetch' = [fetch EXCEPT ![i].pc = "os_open"]
    /\ UNCHANGED <<conf_vars, plan, gui, batch_vars, budget, file_vars>>

\* Lines 164-184: the short-circuit on an existing file, then the setup and
\* the first iteration of the loop.
descargar_archivo(i) ==
    LET f == fetch[i] IN
    /\ f.pc = "idle"
    /\ fetch' = [fetch EXCEPT ![i] =
                    IF dest[f.output_path] # "absent" /\ ~f.overwrite
                    THEN [f EXCEPT !.pc = "done", !.result = "True"]
                    ELSE [f EXCEPT !.pc = "os_open"]]
    /\ UNCHANGED <<conf_vars, plan, gui, batch_vars, budget, file_vars>>

\* Line 193: os.open(file_path, O_CREAT | O_EXCL | O_RDWR).
file_lock_open(i) ==
    LET f == fetch[i]
        p == f.output_path IN
    /\ f.pc = "os_open"
    /\ IF ~lock[p].exists
       THEN /\ lock' = [lock EXCEPT ![p] = [exists |-> TRUE, open |-> {i}, old |-> FALSE, by |-> i]]
            /\ fetch' = [fetch EXCEPT ![i].pc = "locked"]
       ELSE /\ fetch' = [fetch EXCEPT ![i].pc = "eexist"]
            /\ UNCHANGED lock
    /\ UNCHANGED <<conf_vars, plan, gui, batch_vars, budget, tmp, dest>>

\* EEXIST handled without looking at the time waited.
file_lock_eexist_forever(i) ==
    LET f == fetch[i]
        p == f.output_path IN
    /\ f.pc = "eexist"
    /\ lock' = IF IsStale(lock[p]) /\ CanRemove(lock[p])
               THEN [lock EXCEPT ![p] = NoLock] ELSE lock
    /\ fetch' = [fetch EXCEPT ![i].pc = "os_open"]
    /\ UNCHANGED <<conf_vars, plan, gui, batch_vars, budget, tmp, dest>>

\* Lines 196-220: EEXIST.  Evict a stale lock and retry at once; otherwise
\* (not stale, or os.remove raised) time out or sleep one poll interval.
file_lock_eexist(i) ==
    LET f == fetch[i]
        p == f.output_path IN
    /\ f.pc = "eexist"
    /\ IF IsStale(lock[p]) /\ CanRemove(lock[p])
       THEN /\ lock' = [lock EXCEPT ![p] = NoLock]
            /\ fetch' = [fetch EXCEPT ![i].pc = "os_open"]
       ELSE /\ fetch' = [fetch EXCEPT ![i] =
                    IF f.waited >= LockWaitPolls
                    THEN [f EXCEPT !.pc = "except_exc", !.e = LockTimeout]
                    ELSE [f EXCEPT !.pc = "os_open", !.waited = @ + 1]]
            /\ UNCHANGED lock
    /\ UNCHANGED <<conf_vars, plan, gui, batch_vars, budget, tmp, dest>>

\* Status checks that take every 4xx answer for a refusal.
session_get_4xx(i) ==
    LET f == fetch[i] IN
    /\ f.pc = "locked"
    /\ \/ /\ \E len \in {0, BodyChunks} :
                fetch' = [fetch EXCEPT ![i] =
                    [f EXCEPT !.pc = "close_fd", !.requests = @ + 1,
                              !.total_size = len, !.after = "open_tmp"]]
          /\ UNCHANGED budget
       \/ /\ budget > 0
          /\ budget' = budget - 1
          /\ \E e \in GetErrors :
                fetch' = [fetch EXCEPT ![i] =
                    [f EXCEPT !.pc = "close_fd", !.requests = @ + 1, !.e = e,
                              !.after = IF e.status \in 400..499
                                        THEN "except_perm" ELSE "except_req"]]
    /\ UNCHANGED <<conf_vars, plan, gui, batch_vars, file_vars>>

\* Lines 262-271, inside the with block: session.get and the status checks.
\* An exception leaves through file_lock's finally.
session_get(i) ==
    LET f == fetch[i] IN
    /\ f.pc = "locked"
    /\ \/ /\ \E len \in {0, BodyChunks} :
                fetch' = [fetch EXCEPT ![i] =
                    [f EXCEPT !.pc = "close_fd", !.requests = @ + 1,
                              !.total_size = len, !.after = "open_tmp"]]
          /\ UNCHANGED budget
       \/ /\ budget > 0
          /\ budget' = budget - 1
          /\ \E e \in GetErrors :
                fetch' = [fetch EXCEPT ![i] =
                    [f EXCEPT !.pc = "close_fd", !.requests = @ + 1, !.e = e,
                              !.after = IF e.type = "PermissionError"
                                        THEN "except_perm" ELSE "except_req"]]
    /\ UNCHANGED <<conf_vars, plan, gui, batch_vars, file_vars>>

\* Lines 226-232: msvcrt unlock and os.close(lock_fd).
file_lock_close(i) ==
    LET f == fetch[i]
        p == f.output_path IN
    /\ f.pc = "close_fd"
    /\ lock' = [lock EXCEPT ![p].open = @ \ {i}]
    /\ fetch' = [fetch EXCEPT ![i].pc = "rm_lock"]
    /\ UNCHANGED <<conf_vars, plan, gui, batch_vars, budget, tmp, dest>>

\* A release that closes the descriptor and leaves the file.
file_lock_keep(i) ==
    /\ fetch[i].pc = "rm_lock"
    /\ fetch' = [fetch EXCEPT ![i].pc = fetch[i].after]
    /\ UNCHANGED <<conf_vars, plan, gui, batch_vars, budget, file_vars>>

\* Lines 233-236: os.remove(file_path), an OSError swallowed.
file_lock_remove(i) ==
    LET f == fetch[i]
        p == f.output_path IN
    /\ f.pc = "rm_lock"
    /\ lock' = IF CanRemove(lock[p]) THEN [lock EXCEPT ![p] = NoLock] ELSE lock
    /\ fetch' = [fetch EXCEPT ![i].pc = f.after]
    /\ UNCHANGED <<conf_vars, plan, gui, batch_vars, budget, tmp, dest>>

\* Line 278: open(temp_file_path, 'wb') creates or truncates the file.
open_tmp(i) ==
    LET f == fetch[i]
        p == f.output_path IN
    /\ f.pc = "open_tmp"
    /\ tmp' = [tmp EXCEPT ![p] = [exists |-> TRUE, size |-> 0, open |-> tmp[p].open \cup {i}]]
    /\ fetch' = [fetch EXCEPT ![i] = [f EXCEPT !.pc = "iter_content", !.bytes_downloaded = 0]]
    /\ UNCHANGED <<conf_vars, plan, gui, batch_vars, budget, lock, dest>>

\* Lines 287-301: one chunk written at this handle's offset, or the stream
\* ends (complete; or short, which only an advertised length can reveal),
\* or it raises.  Leaving the with block closes the handle.
iter_content(i) ==
    LET f == fetch[i]
        p == f.output_path
        closed == [tmp EXCEPT ![p].open = @ \ {i}] IN
    /\ f.pc = "iter_content"
    /\ \/ /\ f.bytes_downloaded < BodyChunks
          /\ fetch' = [fetch EXCEPT ![i].bytes_downloaded = @ + 1]
          /\ tmp' = [tmp EXCEPT ![p].size = Max(@, f.bytes_downloaded + 1)]
          /\ UNCHANGED budget
       \/ /\ f.bytes_downloaded = BodyChunks
          /\ fetch' = [fetch EXCEPT ![i].pc = "getsize"]
          /\ tmp' = closed
          /\ UNCHANGED budget
       \/ /\ f.bytes_downloaded < BodyChunks
          /\ budget > 0
          /\ budget' = budget - 1
          /\ tmp' = closed
          /\ \/ /\ f.total_size > 0
                /\ fetch' = [fetch EXCEPT ![i].pc = "getsize"]
             \/ \E t \in NetTexts :
                  fetch' = [fetch EXCEPT ![i] =
                      [f EXCEPT !.pc = "except_req", !.e = NetError(t)]]
    /\ UNCHANGED <<conf_vars, plan, gui, batch_vars, lock, dest>>

\* Line 304: the size check, made only when a length was advertised.
getsize(i) ==
    LET f == fetch[i]
        p == f.output_path IN
    /\ f.pc = "getsize"
    /\ fetch' = [fetch EXCEPT ![i] =
            IF f.total_size > 0 /\ ~tmp[p].exists
            THEN [f EXCEPT !.pc = "except_exc", !.e = NotFound]
            ELSE IF f.total_size > 0 /\ tmp[p].size # f.total_size
            THEN [f EXCEPT !.pc = "except_req", !.e = SizeMismatch]
            ELSE [f EXCEPT !.pc = "replace"]]
    /\ UNCHANGED <<conf_vars, plan, gui, batch_vars, budget, file_vars>>

\* Lines 308-320: os.replace(temp_file_path, output_path).  A missing temp
\* file is re-raised; a temp file another handle holds open, or a destination
\* another program holds open, is EACCES: report and sleep 1 s.
os_replace(i) ==
    LET f == fetch[i]
        p == f.output_path
        eacces == [f EXCEPT !.pc = "pause", !.e = RenameError, !.reported = TRUE,
                            !.sleep_time = RenamePause] IN
    /\ f.pc = "replace"
    /\ \/ /\ ~tmp[p].exists
          /\ fetch' = [fetch EXCEPT ![i] = [f EXCEPT !.pc = "except_exc", !.e = NotFound]]
          /\ UNCHANGED <<budget, tmp, dest>>
       \/ /\ tmp[p].exists
          /\ tmp[p].open # {}
          /\ fetch' = [fetch EXCEPT ![i] = eacces]
          /\ UNCHANGED <<budget, tmp, dest>>
       \/ /\ CanRemove(tmp[p])
          /\ budget > 0
          /\ budget' = budget - 1
          /\ fetch' = [fetch EXCEPT ![i] = eacces]
          /\ UNCHANGED <<tmp, dest>>
       \/ /\ CanRemove(tmp[p])
          /\ dest' = [dest EXCEPT ![p] = Committed(tmp[p].size)]
          /\ tmp' = [tmp EXCEPT ![p] = NoTmp]
          /\ fetch' = [fetch EXCEPT ![i] = [f EXCEPT !.pc = "done", !.result = "True"]]
          /\ UNCHANGED budget
    /\ UNCHANGED <<conf_vars, plan, gui, batch_vars, lock>>

\* Lines 318-319: time.sleep(1) is over; continue.
pause(i) ==
    /\ fetch[i].pc = "pause"
    /\ WithinHorizon(fetch[i])
    /\ fetch' = [fetch EXCEPT ![i] = Continue([fetch[i] EXCEPT !.sleeps = @ + 1])]
    /\ UNCHANGED <<conf_vars, plan, gui, batch_vars, budget, file_vars>>

\* except RequestException that continues without sleeping.
except_req_nosleep(i) ==
    LET f == fetch[i] IN
    /\ f.pc = "except_req"
    /\ tmp' = CleanTmp(f.output_path)
    /\ fetch' = [fetch EXCEPT ![i] =
                    Continue([f EXCEPT !.last_exception = f.e, !.reported = TRUE])]
    /\ UNCHANGED <<conf_vars, plan, gui, batch_vars, budget, lock, dest>>

\* Lines 328-352: except RequestException.  Record and report the error,
\* remove the temp file, and sleep unless this was the last attempt.
except_req(i) ==
    LET f == fetch[i]
        g == [f EXCEPT !.last_exception = f.e, !.reported = TRUE] IN
    /\ f.pc = "except_req"
    /\ tmp' = CleanTmp(f.output_path)
    /\ IF f.attempt < retries - 1
       THEN \E t \in SleepTimes(f.attempt, f.e) :
                fetch' = [fetch EXCEPT ![i] = [g EXCEPT !.pc = "backoff", !.sleep_time = t]]
       ELSE fetch' = [fetch EXCEPT ![i] = Continue(g)]
    /\ UNCHANGED <<conf_vars, plan, gui, batch_vars, budget, lock, dest>>

\* Lines 351-352: time.sleep(sleep_time) is over; continue.
backoff(i) ==
    /\ fetch[i].pc = "backoff"
    /\ WithinHorizon(fetch[i])
    /\ fetch' = [fetch EXCEPT ![i] = Continue([fetch[i] EXCEPT !.sleeps = @ + 1])]
    /\ UNCHANGED <<conf_vars, plan, gui, batch_vars, budget, file_vars>>

\* except PermissionError that continues with the next attempt.
except_perm_continue(i) ==
    LET f == fetch[i] IN
    /\ f.pc = "except_perm"
    /\ fetch' = [fetch EXCEPT ![i] =
                    Continue([f EXCEPT !.last_exception = f.e, !.reported = TRUE])]
    /\ UNCHANGED <<conf_vars, plan, gui, batch_vars, budget, file_vars>>

\* Lines 322-326: except PermissionError: record, report, break.
except_perm(i) ==
    LET f == fetch[i] IN
    /\ f.pc = "except_perm"
    /\ fetch' = [fetch EXCEPT ![i] =
                    AfterLoop([f EXCEPT !.last_exception = f.e, !.reported = TRUE])]
    /\ UNCHANGED <<conf_vars, plan, gui, batch_vars, budget, file_vars>>

\* except Exception that reports and continues with the next attempt.
except_exc_continue(i) ==
    LET f == fetch[i] IN
    /\ f.pc = "except_exc"
    /\ tmp' = CleanTmp(f.output_path)
    /\ fetch' = [fetch EXCEPT ![i] = Continue([f EXCEPT !.reported = TRUE])]
    /\ UNCHANGED <<conf_vars, plan, gui, batch_vars, budget, lock, dest>>

\* except Exception that does not call error_callback.
except_exc_silent(i) ==
    LET f == fetch[i] IN
    /\ f.pc = "except_exc"
    /\ tmp' = CleanTmp(f.output_path)
    /\ fetch' = [fetch EXCEPT ![i] = [f EXCEPT !.pc = "done", !.result = "False"]]
    /\ UNCHANGED <<conf_vars, plan, gui, batch_vars, budget, lock, dest>>

\* Lines 354-363: except Exception: report, remove the temp file, return False.
except_exc(i) ==
    LET f == fetch[i] IN
    /\ f.pc = "except_exc"
    /\ tmp' = CleanTmp(f.output_path)
    /\ fetch' = [fetch EXCEPT ![i] =
                    [f EXCEPT !.pc = "done", !.result = "False", !.reported = TRUE]]
    /\ UNCHANGED <<conf_vars, plan, gui, batch_vars, budget, lock, dest>>

Fetch(i) ==
    \/ file_lock_open(i)
    \/ file_lock_eexist(i)
    \/ session_get(i)
    \/ file_lock_close(i)
    \/ file_lock_remove(i)
    \/ open_tmp(i)
    \/ iter_content(i)
    \/ getsize(i)
    \/ os_replace(i)
    \/ pause(i)
    \/ except_req(i)
    \/ backoff(i)
    \/ except_perm(i)
    \/ except_exc(i)

\* ------------------------------------------------- remove_stale_lock_files
\* A sweep that unlinks a stale lock file whether or not it is held open.
remove_stale_lock_files_unlink(p) ==
    /\ lock[p].exists
    /\ IsStale(lock[p])
    /\ lock' = [lock EXCEPT ![p] = NoLock]
    /\ UNCHANGED <<conf_vars, plan, gui, batch_vars, budget, fetch, tmp, dest>>

\* Lines 96-119, one lock file of the walk: remove it when stale; an OSError
\* (the file is held open) is logged and the file stays.
remove_stale_lock_files(p) ==
    /\ lock[p].exists
    /\ IsStale(lock[p])
    /\ CanRemove(lock[p])
    /\ lock' = [lock EXCEPT ![p] = NoLock]
    /\ UNCHANGED <<conf_vars, plan, gui, batch_vars, budget, fetch, tmp, dest>>

\* Time passes: a lock file grows older than STALE_LOCK_MAX_AGE.  The age of
\* a file is only looked at to remove it, which fails while a descriptor is
\* open on it: the step is taken once the file is closed.
LockAges(p) ==
    /\ STALE_LOCK_MAX_AGE > 0
    /\ lock[p].exists
    /\ lock[p].open = {}
    /\ ~lock[p].old
    /\ lock' = [lock EXCEPT ![p].old = TRUE]
    /\ UNCHANGED <<conf_vars, plan, gui, batch_vars, budget, fetch, tmp, dest>>

\* ------------------------------------------ consolidar_archivos_descargados
\* A cell of the NumeroTramite column read with dtype=str: a text, or NaN for
\* an empty field.
Text(s) == [na |-> FALSE, s |-> s]
NaN == [na |-> TRUE, s |-> <<>>]
Cells == {Text(<<"L", "M", "1">>), Text(<<"L", "M", "2">>), Text(<<"A", "L", "M">>), NaN}

SeqsUpTo(S, n) == UNION {[1..k -> S] : k \in 0..n}

\* What a partition file holds: it cannot be read by pd.read_csv, or its
\* header row has no NumeroTramite column, or it has data rows.
Contents(n) ==
    {[kind |-> "unreadable", rows |-> <<>>], [kind |-> "nocolumn", rows |-> <<>>]}
    \cup {[kind |-> "csv", rows |-> r] : r \in SeqsUpTo(Cells, n)}

HasNaN(content) == \E k \in 1..Len(content.rows) : content.rows[k].na

\* A prefix test that accepts the prefix anywhere in the text.
startswith_anywhere(s, prefix) == Contains(s, prefix)

\* str.startswith
startswith(s, prefix) ==
    Len(s) >= Len(prefix) /\ SubSeq(s, 1, Len(prefix)) = prefix

\* The name of the folder of a path, in place of the name of the file.
dirname_name(p) == IF p <= TasksPerCategory THEN <<"C", "C", "M">> ELSE <<"P", "R", "R">>

\* os.path.basename: the n-th partition of every category has the same file
\* name, {anio}_{estado}.csv.
basename(p) == <<DigitChar(((p - 1) % TasksPerCategory) + 1), ".", "c", "s", "v">>

\* Lines 1082-1087: df[df['NumeroTramite'].str.startswith('LM')] and the
\* ARCHIVO_ORIGEN column; the other columns of a row are its line number.
FilterRows(content, archivo) ==
    LET all == [k \in 1..Len(content.rows) |->
                   [NumeroTramite |-> content.rows[k].s, line |-> k,
                    ARCHIVO_ORIGEN |-> basename(archivo)]]
        keep(r) == /\ ~content.rows[r.line].na
                   /\ startswith(r.NumeroTramite, <<"L", "M">>) IN
    SelectSeq(all, keep)

\* pd.concat(dataframes, ignore_index=True)
RECURSIVE concat(_)
concat(dataframes) ==
    IF dataframes = <<>> THEN <<>>
    ELSE Head(dataframes) \o concat(Tail(dataframes))

\* The frame of a call.  inputs, parsed: what each file read so far held and
\* whether its iteration completed; errors: calls of error_callback.
ConsFrame(files, base, weight) ==
    [pc |-> "idle", downloaded_files |-> files, base_progress |-> base,
     progress_weight |-> weight, total_files |-> Len(files), index |-> 0,
     dataframes |-> <<>>, inputs |-> <<>>, parsed |-> <<>>, errors |-> 0,
     written |-> FALSE, output |-> <<>>]

NoCons == [ConsFrame(<<>>, 80, 20) EXCEPT !.pc = "absent"]

\* Lines 1066-1072: nothing to do for an empty list.
consolidar_archivos_descargados ==
    /\ cons.pc = "idle"
    /\ cons' = [cons EXCEPT !.pc = IF cons.downloaded_files = <<>>
                                   THEN "returned" ELSE "loop"]
    /\ UNCHANGED <<conf_vars, plan, gui, budget, fetch, file_vars, batch, par, progress>>

\* Lines 1074-1094, one iteration.  read_csv or the filter raises (a mask
\* holding NaN raises or counts as False, depending on the pandas in use):
\* report and continue; otherwise append the filtered frame and report
\* progress.  After the last file: return if nothing was appended.
read_csv ==
    LET archivo == cons.downloaded_files[cons.index + 1]
        value == <<cons.base_progress * cons.total_files
                      + (cons.index + 1) * cons.progress_weight,
                   cons.total_files>> IN
    /\ cons.pc = "loop"
    /\ cons.index < cons.total_files
    /\ \E content \in Contents(max_rows), raises \in BOOLEAN :
          /\ raises => HasNaN(content)
          /\ LET ok == content.kind = "csv" /\ ~raises
                 dfs == IF ok THEN Append(cons.dataframes, FilterRows(content, archivo))
                        ELSE cons.dataframes IN
             /\ cons' = [cons EXCEPT
                    !.index = @ + 1,
                    !.dataframes = dfs,
                    !.inputs = Append(@, content),
                    !.parsed = Append(@, ok),
                    !.errors = IF ok THEN @ ELSE @ + 1,
                    !.pc = IF cons.index + 1 < cons.total_files THEN "loop"
                           ELSE IF dfs = <<>> THEN "returned" ELSE "write"]
             /\ progress' = IF ok THEN Append(progress, value) ELSE progress
    /\ UNCHANGED <<conf_vars, plan, gui, budget, fetch, file_vars, batch, par>>

\* Lines 1101-1117: concat and to_csv; a failure is reported, not raised.
to_csv ==
    /\ cons.pc = "write"
    /\ \/ /\ cons' = [cons EXCEPT !.pc = "returned", !.written = TRUE,
                                  !.output = concat(cons.dataframes)]
          /\ UNCHANGED budget
       \/ /\ budget > 0
          /\ budget' = budget - 1
          /\ cons' = [cons EXCEPT !.pc = "returned", !.errors = @ + 1]
    /\ UNCHANGED <<conf_vars, plan, gui, fetch, file_vars, batch, par, progress>>

\* --------------------------------------------------- descargar_en_paralelo
\* A future of the pool.
Queued == [state |-> "queued", result |-> "none", reported |-> FALSE,
           requests |-> 0, sleeps |-> 0, final_error |-> None]

ParFrame(tipo, urls) ==
    [pc |-> "collect", tipo |-> tipo, urls |-> urls, total_files |-> Len(urls),
     futures |-> [t \in 1..Len(urls) |-> Queued], index |-> 1,
     completed_files |-> 0, downloaded_files |-> <<>>]

NoPar == [ParFrame(0, <<>>) EXCEPT !.pc = "absent"]

\* A thread of the pool without a task.
Free == [Frame(1, TRUE) EXCEPT !.pc = "free"]

\* Lines 398-403: a thread takes the oldest queued future and calls
\* descargar_archivo(url, file_path, ..., overwrite=True).
worker_run(i) ==
    /\ par.pc = "collect"
    /\ fetch[i].pc = "free"
    /\ \E t \in 1..par.total_files :
          /\ par.futures[t].state = "queued"
          /\ \A u \in 1..(t - 1) : par.futures[u].state # "queued"
          /\ par' = [par EXCEPT !.futures[t].state = "running"]
          /\ fetch' = [fetch EXCEPT ![i] = [Frame(par.urls[t], TRUE) EXCEPT !.task = t]]
    /\ UNCHANGED <<conf_vars, plan, gui, budget, file_vars, batch, cons, progress>>

\* descargar_archivo has returned: the future holds its result.
worker_done(i) ==
    LET f == fetch[i] IN
    /\ par.pc = "collect"
    /\ f.pc = "done"
    /\ par' = [par EXCEPT !.futures[f.task] =
                  [state |-> "done", result |-> f.result, reported |-> f.reported,
                   requests |-> f.requests, sleeps |-> f.sleeps,
                   final_error |-> f.final_error]]
    /\ fetch' = [fetch EXCEPT ![i] = Free]
    /\ UNCHANGED <<conf_vars, plan, gui, budget, file_vars, batch, cons, progress>>

\* A collection loop that stops at the first task that failed.
future_result_stop ==
    LET t == par.index
        ok == par.futures[t].result = "True" IN
    /\ par.pc = "collect"
    /\ t <= par.total_files
    /\ par.futures[t].state = "done"
    /\ par' = [par EXCEPT
            !.index = IF ok THEN @ + 1 ELSE par.total_files + 1,
            !.completed_files = @ + 1,
            !.downloaded_files = IF ok THEN Append(@, par.urls[t]) ELSE @]
    /\ progress' = Append(progress, <<(par.completed_files + 1) * 80, par.total_files>>)
    /\ UNCHANGED <<conf_vars, plan, gui, budget, fetch, file_vars, batch, cons>>

\* Lines 406-412, one iteration of "for future, file_path in tasks":
\* future.result() blocks until that future is done.
future_result ==
    LET t == par.index
        done == par.completed_files + 1 IN
    /\ par.pc = "collect"
    /\ t <= par.total_files
    /\ par.futures[t].state = "done"
    /\ par' = [par EXCEPT
            !.index = @ + 1,
            !.completed_files = done,
            !.downloaded_files = IF par.futures[t].result = "True"
                                 THEN Append(@, par.urls[t]) ELSE @]
    /\ progress' = Append(progress, <<done * 80, par.total_files>>)
    /\ UNCHANGED <<conf_vars, plan, gui, budget, fetch, file_vars, batch, cons>>

\* Line 423 and its caller, lines 529-543: the list of downloaded files
\* becomes downloaded_by_type[tipo].
descargar_en_paralelo_return ==
    /\ par.pc = "collect"
    /\ par.index > par.total_files
    /\ batch.pc = "parallel"
    /\ par' = [par EXCEPT !.pc = "returned"]
    /\ batch' = [batch EXCEPT
            !.pc = "category", !.k = @ + 1,
            !.downloaded_by_type[par.tipo] = [set |-> TRUE, files |-> par.downloaded_files]]
    /\ UNCHANGED <<conf_vars, plan, gui, budget, fetch, file_vars, cons, progress>>

\* -------------------------------------------------- descargar_y_consolidar
\* selected_modules: not given (None), or the names mapped to True.
Selections ==
    {[given |-> FALSE, on |-> {}]} \cup
    {[given |-> TRUE, on |-> names] : names \in {{}, {"CCM"}, {"CCM", "PRR"}}}

Selected(sel, tipo) ==
    ~sel.given \/ \E name \in sel.on : module_name_to_id(name) = tipo

\* The urls of a category, in planning order.
UrlsOf(tipo) == [n \in 1..TasksPerCategory |-> PathOf(tipo, n)]

Exists(p) == dest[p] # "absent"

\* remove_stale_lock_files(log_callback=log_callback), the whole walk.
Swept == [p \in Paths |-> IF IsStale(lock[p]) /\ CanRemove(lock[p])
                          THEN NoLock ELSE lock[p]]

\* The frame of a call that has not been made yet.  preexisting: the
\* destinations on disk when the call was made.
BatchFrame(option, ow, sel) ==
    [pc |-> "idle", download_option |-> option, overwrite |-> ow,
     selected_modules |-> sel, folders |-> <<>>, urls_por_partes |-> <<>>,
     k |-> 1,
     downloaded_by_type |-> [c \in Categories |-> [set |-> FALSE, files |-> <<>>]],
     preexisting |-> {}, result |-> "none"]

NoBatch == [BatchFrame("all", FALSE, [given |-> FALSE, on |-> {}]) EXCEPT !.pc = "absent"]

\* Lines 435-453 and 495-499: folders, the sweep of lock files, the
\* selection, the plan.  Nothing selected: return None.
descargar_y_consolidar ==
    LET sel == batch.selected_modules
        keep(tipo) == Selected(sel, tipo)
        folders == SelectSeq(tipos_tramite, keep) IN
    /\ batch.pc = "idle"
    /\ lock' = Swept
    /\ batch' = [batch EXCEPT
            !.folders = folders,
            !.urls_por_partes = SelectSeq(planned_tipos, keep),
            !.preexisting = {p \in Paths : Exists(p)},
            !.pc = IF sel.given /\ folders = <<>> THEN "returned"
                   ELSE IF batch.download_option = "consolidate" THEN "consolidate"
                   ELSE "category",
            !.result = IF sel.given /\ folders = <<>> THEN "None" ELSE "none"]
    /\ UNCHANGED <<conf_vars, plan, gui, budget, fetch, tmp, dest, par, cons, progress>>

\* Lines 513-543, one iteration of "for tipo, urls in urls_por_partes":
\* folders[tipo] raises KeyError for a category without a folder; in
\* 'missing' mode only the absent destinations are downloaded.
procesar_descargas ==
    LET tipo == batch.urls_por_partes[batch.k]
        missing(p) == ~Exists(p)
        urls == IF batch.download_option = "missing"
                THEN SelectSeq(UrlsOf(tipo), missing) ELSE UrlsOf(tipo) IN
    /\ batch.pc = "category"
    /\ IF batch.k > Len(batch.urls_por_partes)
       THEN /\ batch' = [batch EXCEPT !.pc = "consolidate", !.k = 1]
            /\ UNCHANGED par
       ELSE IF \A j \in 1..Len(batch.folders) : batch.folders[j] # tipo
       THEN /\ batch' = [batch EXCEPT !.pc = "raised", !.result = "KeyError"]
            /\ UNCHANGED par
       ELSE IF urls = <<>>
       THEN /\ batch' = [batch EXCEPT !.k = @ + 1,
                    !.downloaded_by_type[tipo] = [set |-> TRUE, files |-> <<>>]]
            /\ UNCHANGED par
       ELSE /\ batch' = [batch EXCEPT !.pc = "parallel"]
            /\ par' = ParFrame(tipo, urls)
    /\ UNCHANGED <<conf_vars, plan, gui, budget, fetch, file_vars, cons, progress>>

\* glob.glob(folder/*.csv) without the consolidated files (lines 470-471).
GlobOf(tipo) == SelectSeq(UrlsOf(tipo), Exists)

\* A consolidation that reads whatever the folder holds, in every mode.
consolidar_carpeta_glob ==
    LET tipo == batch.folders[batch.k]
        only == batch.download_option = "consolidate" IN
    /\ batch.pc = "consolidate"
    /\ IF batch.k > Len(batch.folders)
       THEN /\ batch' = [batch EXCEPT !.pc = "returned", !.result = "True"]
            /\ UNCHANGED cons
       ELSE /\ batch' = [batch EXCEPT !.pc = "consolidating"]
            /\ cons' = IF only THEN ConsFrame(GlobOf(tipo), 0, 100)
                       ELSE ConsFrame(GlobOf(tipo), 80, 20)
    /\ UNCHANGED <<conf_vars, plan, gui, budget, fetch, file_vars, par, progress>>

\* Lines 462-480 and 548-563, one iteration of "for tipo, folder in
\* folders.items()": call consolidar_archivos_descargados; after the last
\* folder return consolidation_success.
consolidar_carpeta ==
    LET tipo == batch.folders[batch.k]
        only == batch.download_option = "consolidate" IN
    /\ batch.pc = "consolidate"
    /\ IF batch.k > Len(batch.folders)
       THEN /\ batch' = [batch EXCEPT !.pc = "returned", !.result = "True"]
            /\ UNCHANGED cons
       ELSE /\ batch' = [batch EXCEPT !.pc = "consolidating"]
            /\ cons' = IF only THEN ConsFrame(GlobOf(tipo), 0, 100)
                       ELSE ConsFrame(batch.downloaded_by_type[tipo].files, 80, 20)
    /\ UNCHANGED <<conf_vars, plan, gui, budget, fetch, file_vars, par, progress>>

\* consolidar_archivos_descargados has returned: the next folder.
consolidar_retorno ==
    /\ batch.pc = "consolidating"
    /\ cons.pc = "returned"
    /\ batch' = [batch EXCEPT !.pc = "consolidate", !.k = @ + 1]
    /\ cons' = [cons EXCEPT !.pc = "joined"]
    /\ UNCHANGED <<conf_vars, plan, gui, budget, fetch, file_vars, par, progress>>

\* ------------------------------------------------ generar_urls_por_partes
\* Lines 130-134.
anios == <<2025, 2024, 2023, 2022, 2021, 2020, 2019, 2018>>
estados_tramite == <<"A", "P", "B", "R", "D", "E", "N">>
BASE_URL == "http://172.27.230.27/ReportServer"
REPORT_FORMAT == "CSV"

\* The decimal digits an f-string puts for an int.
RECURSIVE str(_)
str(n) == IF n < 10 THEN <<DigitChar(n)>>
          ELSE str(n \div 10) \o <<DigitChar(n % 10)>>

\* Lines 136-142: (url, anio, estado), the url as the pieces of its f-string.
construir_url(tipo, anio, estado) ==
    << <<BASE_URL, "?%2FAGV_PTP%2FRPT_INMIGRA_PTP_REGUL_CCM", "&nidtipoTramite=">>
         \o str(tipo) \o <<"&anio=">> \o str(anio)
         \o <<"&EstadoTramite=", estado, "&rs:Format=", REPORT_FORMAT>>,
       anio, estado >>

\* The frame of generar_urls_por_partes.
\*   pc               position in the function
\*   urls_por_partes  the dict being filled, tipo -> list
\*   t                position of "for tipo in [58, 57, 317, 55]"
\*   acc, a, e        the list under construction and the positions of its
\*                    two for clauses, "for anio in anios" and "for estado in
\*                    estados_tramite"
\*   results          the values the calls made so far have returned
PlanFrame ==
    [pc |-> "idle", urls_por_partes |-> <<>>, t |-> 1, acc |-> <<>>, a |-> 1,
     e |-> 1, results |-> <<>>]
NoPlan == [PlanFrame EXCEPT !.pc = "absent"]

\* Lines 129-131: the call; the dict starts empty.
generar_urls_por_partes ==
    /\ plan.pc = "idle"
    /\ Len(plan.results) < PlanCalls
    /\ plan' = [plan EXCEPT !.pc = "for_tipo", !.urls_por_partes = <<>>, !.t = 1]
    /\ UNCHANGED <<conf_vars, gui, budget, fetch, file_vars, batch_vars>>

\* Line 144: the next tipo; its list comprehension starts.
for_tipo ==
    /\ plan.pc = "for_tipo"
    /\ plan.t <= Len(planned_tipos)
    /\ plan' = [plan EXCEPT !.pc = "comprehension", !.acc = <<>>, !.a = 1, !.e = 1]
    /\ UNCHANGED <<conf_vars, gui, budget, fetch, file_vars, batch_vars>>

\* A comprehension whose elements come status by status.
comprehension_por_estado ==
    LET n == Len(plan.acc) IN
    /\ plan.pc = "comprehension"
    /\ plan.a <= Len(anios)
    /\ plan' = [plan EXCEPT
                  !.acc = Append(@, construir_url(planned_tipos[plan.t],
                                                  anios[(n % Len(anios)) + 1],
                                                  estados_tramite[(n \div Len(anios)) + 1])),
                  !.e = IF plan.e < Len(estados_tramite) THEN @ + 1 ELSE 1,
                  !.a = IF plan.e < Len(estados_tramite) THEN @ ELSE @ + 1]
    /\ UNCHANGED <<conf_vars, gui, budget, fetch, file_vars, batch_vars>>

\* Lines 145-147: one element of the comprehension; estado is the inner
\* for clause, anio the outer one.
comprehension ==
    /\ plan.pc = "comprehension"
    /\ plan.a <= Len(anios)
    /\ plan' = [plan EXCEPT
                  !.acc = Append(@, construir_url(planned_tipos[plan.t],
                                                  anios[plan.a],
                                                  estados_tramite[plan.e])),
                  !.e = IF plan.e < Len(estados_tramite) THEN @ + 1 ELSE 1,
                  !.a = IF plan.e < Len(estados_tramite) THEN @ ELSE @ + 1]
    /\ UNCHANGED <<conf_vars, gui, budget, fetch, file_vars, batch_vars>>

\* Line 145: the finished list is stored under its tipo.
comprehension_end ==
    /\ plan.pc = "comprehension"
    /\ plan.a > Len(anios)
    /\ plan' = [plan EXCEPT
                  !.urls_por_partes = (planned_tipos[plan.t] :> plan.acc) @@ @,
                  !.t = @ + 1, !.pc = "for_tipo"]
    /\ UNCHANGED <<conf_vars, gui, budget, fetch, file_vars, batch_vars>>

\* Line 148: return urls_por_partes.
generar_urls_por_partes_return ==
    /\ plan.pc = "for_tipo"
    /\ plan.t > Len(planned_tipos)
    /\ plan' = [plan EXCEPT !.results = Append(@, plan.urls_por_partes),
                            !.pc = "idle"]
    /\ UNCHANGED <<conf_vars, gui, budget, fetch, file_vars, batch_vars>>

\* ------------------------------------------------------------------- gui
\* No process has been started from the window.
NoGui == [is_running |-> FALSE, cancelled |-> FALSE]

\* main_window.py lines 497-501: the Cancel button.  process_finished sets
\* is_running to False again and enables the buttons.
cancel_process ==
    /\ gui.is_running
    /\ gui' = [gui EXCEPT !.is_running = FALSE]
    /\ UNCHANGED <<conf_vars, plan, budget, fetch, file_vars, batch_vars>>

\* download_manager.py lines 78-85: set_cancelled(True).
set_cancelled ==
    /\ ~gui.cancelled
    /\ gui' = [gui EXCEPT !.cancelled = TRUE]
    /\ UNCHANGED <<conf_vars, plan, budget, fetch, file_vars, batch_vars>>

\* ------------------------------------------------------------------ Spec
\* Two application instances fetch the same partition while a third may
\* start a batch (its sweep).  The lock file of a crashed earlier run may be
\* there.  descargar_en_paralelo, the only caller, passes overwrite=True.
OrphanLock == [exists |-> TRUE, open |-> {}, old |-> FALSE, by |-> 0]

Init ==
    /\ STALE_LOCK_MAX_AGE \in {0, 30}
    /\ budget = RaceFaults
    /\ horizon = RaceAttempts
    /\ max_rows = 0
    /\ batch = NoBatch
    /\ par = NoPar
    /\ cons = NoCons
    /\ progress = <<>>
    /\ plan = NoPlan
    /\ gui = NoGui
    /\ fetch = [i \in Inv |-> Frame(1, TRUE)]
    /\ \E l \in {NoLock, OrphanLock} :
          lock = [p \in Paths |-> IF p = 1 THEN l ELSE NoLock]
    /\ tmp = [p \in Paths |-> NoTmp]
    /\ \E d \in {"absent", "prev"} :
          dest = [p \in Paths |-> IF p = 1 THEN d ELSE "absent"]

Next ==
    \/ \E i \in Inv : descargar_archivo(i)
    \/ \E i \in Inv : Fetch(i)
    \/ \E p \in Paths : remove_stale_lock_files(p)
    \/ \E p \in Paths : LockAges(p)

Spec == Init /\ [][Next]_vars

\* The same, each invocation's thread being scheduled again and again.  The
\* sweep of another process and the ageing of a file may or may not happen.
SpecFair == Spec /\ \A i \in Inv : WF_vars(Fetch(i))

\* ------------------------------------------------------------- SpecFetch
\* One invocation alone, with either value of overwrite.
InitFetch ==
    /\ STALE_LOCK_MAX_AGE \in {0, 30}
    /\ budget = FetchFaults
    /\ horizon = retries
    /\ max_rows = 0
    /\ batch = NoBatch
    /\ par = NoPar
    /\ cons = NoCons
    /\ progress = <<>>
    /\ plan = NoPlan
    /\ gui = NoGui
    /\ \E ow \in BOOLEAN :
          fetch = [i \in Inv |-> IF i = 1 THEN Frame(1, ow)
                                 ELSE [Frame(2, ow) EXCEPT !.pc = "absent"]]
    /\ \E l \in {NoLock, OrphanLock} :
          lock = [p \in Paths |-> IF p = 1 THEN l ELSE NoLock]
    /\ tmp = [p \in Paths |-> NoTmp]
    /\ \E d \in {"absent", "prev"} :
          dest = [p \in Paths |-> IF p = 1 THEN d ELSE "absent"]

SpecFetch == InitFetch /\ [][Next]_vars

\* ------------------------------------------------------------- SpecBatch
\* One run of descargar_y_consolidar and its pool of two threads.  An earlier
\* run has left a lock file on the first partition: the sweep removes it
\* when every lock counts as stale, and leaves it when it is not old enough.
InitBatch ==
    /\ STALE_LOCK_MAX_AGE \in {0, 30}
    /\ budget = BatchFaults
    /\ horizon = BatchAttempts
    /\ max_rows = BatchRows
    /\ fetch = [i \in Inv |-> Free]
    /\ lock = [p \in Paths |-> IF p = 1 THEN OrphanLock ELSE NoLock]
    /\ tmp = [p \in Paths |-> NoTmp]
    /\ \E d \in {"absent", "prev"} : dest = [p \in Paths |-> d]
    /\ \E option \in {"all", "missing", "consolidate"}, ow \in BOOLEAN, sel \in Selections :
          batch = BatchFrame(option, ow, sel)
    /\ par = NoPar
    /\ cons = NoCons
    /\ progress = <<>>
    /\ plan = NoPlan
    /\ gui = NoGui

NextBatch ==
    \/ descargar_y_consolidar
    \/ procesar_descargas
    \/ \E i \in Inv : worker_run(i)
    \/ \E i \in Inv : descargar_archivo(i)
    \/ \E i \in Inv : Fetch(i)
    \/ \E i \in Inv : worker_done(i)
    \/ future_result
    \/ descargar_en_paralelo_return
    \/ consolidar_carpeta
    \/ consolidar_archivos_descargados
    \/ read_csv
    \/ to_csv
    \/ consolidar_retorno
    \/ \E p \in Paths : LockAges(p)

SpecBatch == InitBatch /\ [][NextBatch]_vars

\* ----------------------------------------------------------- SpecMissing
\* A run started from the window in 'missing' mode (selected_modules given,
\* overwrite=True) on a download folder where any of the partitions may be
\* there already.
InitMissing ==
    /\ STALE_LOCK_MAX_AGE \in {0, 30}
    /\ budget = BatchFaults
    /\ horizon = BatchAttempts
    /\ max_rows = BatchRows
    /\ fetch = [i \in Inv |-> Free]
    /\ lock = [p \in Paths |-> IF p = 1 THEN OrphanLock ELSE NoLock]
    /\ tmp = [p \in Paths |-> NoTmp]
    /\ dest \in [Paths -> {"absent", "prev"}]
    /\ \E names \in {{"CCM"}, {"CCM", "PRR"}} :
          batch = BatchFrame("missing", TRUE, [given |-> TRUE, on |-> names])
    /\ par = NoPar
    /\ cons = NoCons
    /\ progress = <<>>
    /\ plan = NoPlan
    /\ gui = NoGui

SpecMissing == InitMissing /\ [][NextBatch]_vars

\* -------------------------------------------------------------- SpecCons
\* One call of consolidar_archivos_descargados on a list of files, in
\* ascending or descending order of their names.
FileLists ==
    {[k \in 1..n |-> k] : n \in 0..MaxFiles} \cup
    {[k \in 1..n |-> n + 1 - k] : n \in 0..MaxFiles}

InitCons ==
    /\ STALE_LOCK_MAX_AGE = 0
    /\ budget = 1
    /\ horizon = retries
    /\ max_rows = MaxRows
    /\ fetch = [i \in Inv |-> Free]
    /\ lock = [p \in Paths |-> NoLock]
    /\ tmp = [p \in Paths |-> NoTmp]
    /\ dest = [p \in Paths |-> "full"]
    /\ batch = NoBatch
    /\ par = NoPar
    /\ \E files \in FileLists, range \in {<<80, 20>>, <<0, 100>>} :
          cons = ConsFrame(files, range[1], range[2])
    /\ progress = <<>>
    /\ plan = NoPlan
    /\ gui = NoGui

NextCons ==
    \/ consolidar_archivos_descargados
    \/ read_csv
    \/ to_csv

SpecCons == InitCons /\ [][NextCons]_vars

\* -------------------------------------------------------------- SpecPlan
\* Calls of generar_urls_por_partes, one after the other, whatever the
\* configuration and the download folder hold.
InitPlan ==
    /\ STALE_LOCK_MAX_AGE \in {0, 30}
    /\ budget = 0
    /\ horizon = retries
    /\ max_rows = 0
    /\ fetch = [i \in Inv |-> Free]
    /\ \E l \in {NoLock, OrphanLock} :
          lock = [p \in Paths |-> IF p = 1 THEN l ELSE NoLock]
    /\ tmp = [p \in Paths |-> NoTmp]
    /\ \E d \in {"absent", "prev"} : dest = [p \in Paths |-> d]
    /\ batch = NoBatch
    /\ par = NoPar
    /\ cons = NoCons
    /\ progress = <<>>
    /\ plan = PlanFrame
    /\ gui = NoGui

NextPlan ==
    \/ generar_urls_por_partes
    \/ for_tipo
    \/ comprehension
    \/ comprehension_end
    \/ generar_urls_por_partes_return

SpecPlan == InitPlan /\ [][NextPlan]_vars

\* ------------------------------------------------------------ SpecCancel
\* start_process (main_window.py lines 327-395) has set is_running and
\* started the thread that runs descargar_y_consolidar on the selected
\* module with overwrite=True; the user may press Cancel, and the download
\* manager may be told to cancel, at any moment.
InitCancel ==
    /\ STALE_LOCK_MAX_AGE = 30
    /\ budget = BatchFaults
    /\ horizon = BatchAttempts
    /\ max_rows = BatchRows
    /\ fetch = [i \in Inv |-> Free]
    /\ lock = [p \in Paths |-> IF p = 1 THEN OrphanLock ELSE NoLock]
    /\ tmp = [p \in Paths |-> NoTmp]
    /\ dest = [p \in Paths |-> "absent"]
    /\ batch = BatchFrame("all", TRUE, [given |-> TRUE, on |-> {"CCM"}])
    /\ par = NoPar
    /\ cons = NoCons
    /\ progress = <<>>
    /\ plan = NoPlan
    /\ gui = [is_running |-> TRUE, cancelled |-> FALSE]

NextCancel ==
    \/ NextBatch
    \/ cancel_process
    \/ set_cancelled

SpecCancel == InitCancel /\ [][NextCancel]_vars


\* ---------------------------------------------------------------- claims
\* The invocation holds an open descriptor on its lock file: it is between
\* the os.open that created the file and the os.close of the release.
InLocked(i) == fetch[i].pc \in {"locked", "close_fd"}

\* C1: at most one invocation is inside the locked section of a lock path at
\* any instant; a second acquirer waits, evicts a stale lock or times out.
C1_MutualExclusion ==
    \A i, j \in Inv :
        (i # j /\ fetch[i].output_path = fetch[j].output_path)
            => ~(InLocked(i) /\ InLocked(j))

\* C1 witness: with "evict every lock" configured, one invocation is inside
\* its locked section while the other has found the lock file in place.
C1_Witness ==
    \E i, j \in Inv :
        /\ i # j
        /\ STALE_LOCK_MAX_AGE <= 0
        /\ InLocked(i)
        /\ fetch[j].pc = "eexist"
        /\ fetch[j].output_path = fetch[i].output_path

\* C2: the destination is absent, the previous completed file or a fully
\* written file: it is never a truncated or partially written file.
C2_NeverPartial == \A p \in Paths : dest[p] \in {"absent", "prev", "full"}

\* C3: an invocation owns the lock while it streams to the temp file, checks
\* the size and renames, so two invocations never write the same temp file
\* at once.
Writing(i) == fetch[i].pc \in {"iter_content", "getsize", "replace"}

C3_LockHeldWhileWriting ==
    /\ \A i \in Inv : Writing(i) => i \in lock[fetch[i].output_path].open
    /\ \A i, j \in Inv :
          (i # j /\ fetch[i].output_path = fetch[j].output_path)
              => ~(fetch[i].pc = "iter_content" /\ fetch[j].pc = "iter_content")

InSeq(x, s) == \E k \in 1..Len(s) : s[k] = x

\* C4: when descargar_en_paralelo returns for N tasks, N outcomes have been
\* produced: every task is done and is either in the returned list or has had
\* its failure reported through error_callback.
C4_EveryTaskHasOutcome ==
    par.pc = "returned" =>
        /\ par.completed_files = par.total_files
        /\ \A t \in 1..par.total_files :
              /\ par.futures[t].state = "done"
              /\ InSeq(par.urls[t], par.downloaded_files) \/ par.futures[t].reported
              /\ InSeq(par.urls[t], par.downloaded_files) <=> par.futures[t].result = "True"

\* C4 witness: a batch of two tasks has returned, one task in the list, the
\* other failed and reported.
C4_Witness ==
    /\ par.pc = "returned"
    /\ par.total_files = 2
    /\ \E t, u \in 1..par.total_files :
          /\ InSeq(par.urls[t], par.downloaded_files)
          /\ par.futures[u].result = "False"
          /\ par.futures[u].reported

\* a <= b for fractions <<numerator, denominator>>.
Leq(a, b) == a[1] * b[2] <= b[1] * a[2]

\* C5: the values passed to progress_callback during one run of
\* descargar_y_consolidar never decrease.
C5_ProgressMonotone ==
    batch.pc # "absent" =>
        \A j, k \in 1..Len(progress) : j < k => Leq(progress[j], progress[k])

\* Every destination planned for a selected category was on disk at the call.
AllPlannedExisted ==
    \A j \in 1..Len(batch.folders), n \in 1..TasksPerCategory :
        PathOf(batch.folders[j], n) \in batch.preexisting

\* C6: a run with overwrite=False over a directory that holds every planned
\* destination issues no HTTP request and returns, for each category, the
\* planned destinations as its successes.
C6_RerunIsIdempotent ==
    (/\ batch.pc \notin {"absent", "idle"}
     /\ batch.download_option # "consolidate"
     /\ ~batch.overwrite
     /\ AllPlannedExisted)
    => /\ \A i \in Inv : fetch[i].requests = 0
       /\ \A t \in 1..par.total_files : par.futures[t].requests = 0
       /\ batch.result = "True" =>
             \A j \in 1..Len(batch.folders) :
                 LET files == batch.downloaded_by_type[batch.folders[j]].files IN
                 \A n \in 1..TasksPerCategory : InSeq(PathOf(batch.folders[j], n), files)

\* 5 * 2^(k-1) for the k-th failure, written out.
BaseDelay(k) == IF k = 1 THEN 5 ELSE IF k = 2 THEN 10 ELSE IF k = 3 THEN 20 ELSE 40

Between(lo, t, hi) == lo <= t /\ t <= hi

\* C7 as stated: after the k-th transient failure (k = 1..4) the sleep before
\* the next attempt is within [5*2^(k-1), 5*2^(k-1) + 1] seconds, plus 5 to 15
\* seconds exactly when the failure was a 502/503/504 response.
C7_BackoffAsStated ==
    \A i \in Inv :
        LET f == fetch[i]
            k == f.attempt + 1 IN
        (f.pc = "backoff" /\ k <= retries - 1) =>
            IF f.e.status \in {502, 503, 504}
            THEN Between(BaseDelay(k) + 5, f.sleep_time, BaseDelay(k) + 1 + 15)
            ELSE Between(BaseDelay(k), f.sleep_time, BaseDelay(k) + 1)

\* The invocation has returned after its fifth attempt failed.
Exhausted(i) == fetch[i].pc = "done" /\ fetch[i].attempt = retries

\* C8: at most 5 requests are issued for a task whatever the failures are;
\* after the fifth failed attempt the call returns failure and names the
\* error of that attempt.
C8_CapAndLastError ==
    \A i \in Inv :
        /\ fetch[i].requests <= retries
        /\ Exhausted(i) =>
              (fetch[i].result = "False" /\ fetch[i].final_error = fetch[i].e)

\* C9: after a 401 the invocation issues no further request, makes no backoff
\* sleep and no further attempt, releases and removes its lock, reports and
\* returns False; the other tasks of the batch that met no error of their own
\* are in the returned list.
C9_AuthFailureStops ==
    /\ [](\A i \in Inv :
            (fetch[i].e = AuthError /\ fetch[i].pc = "done") =>
                /\ fetch[i].result = "False"
                /\ fetch[i].reported
                /\ lock[fetch[i].output_path] = NoLock)
    /\ [][\A i \in Inv :
            (fetch[i].e = AuthError /\ fetch'[i].pc # "free") =>
                /\ fetch'[i].requests = fetch[i].requests
                /\ fetch'[i].sleeps = fetch[i].sleeps
                /\ fetch'[i].attempt = fetch[i].attempt
                /\ fetch'[i].pc \in {"close_fd", "rm_lock", "except_perm", "done"}]_vars
    /\ [](par.pc = "returned" =>
            \A t, u \in 1..par.total_files :
                (/\ par.futures[t].final_error = AuthError
                 /\ ~par.futures[u].reported)
                => InSeq(par.urls[u], par.downloaded_files))

\* C9 witness: a batch has returned in which one task was answered 401 after
\* a single request and another task is in the returned list.
C9_Witness ==
    /\ par.pc = "returned"
    /\ \E t, u \in 1..par.total_files :
          /\ par.futures[t].final_error = AuthError
          /\ par.futures[t].requests = 1
          /\ par.futures[t].result = "False"
          /\ InSeq(par.urls[u], par.downloaded_files)

\* The cell starts with 'LM'.
IsLM(cell) == ~cell.na /\ Len(cell.s) >= 2 /\ cell.s[1] = "L" /\ cell.s[2] = "M"

\* The rows of one input file that the consolidated dataset must hold.
ExpectedOf(content, archivo) ==
    LET all == [k \in 1..Len(content.rows) |->
                   [NumeroTramite |-> content.rows[k].s, line |-> k,
                    ARCHIVO_ORIGEN |-> basename(archivo)]]
        lm(r) == IsLM(content.rows[r.line]) IN
    SelectSeq(all, lm)

\* The rows the dataset must hold for the files read, in the order of the list.
RECURSIVE Expected(_)
Expected(n) ==
    IF n = 0 THEN <<>>
    ELSE Expected(n - 1) \o
         (IF cons.parsed[n] THEN ExpectedOf(cons.inputs[n], cons.downloaded_files[n])
          ELSE <<>>)

\* The sum of the filtered row counts of the files that parsed.
RECURSIVE FilteredCount(_)
FilteredCount(n) ==
    IF n = 0 THEN 0
    ELSE FilteredCount(n - 1) +
         (IF cons.parsed[n]
          THEN Cardinality({k \in 1..Len(cons.inputs[n].rows) : IsLM(cons.inputs[n].rows[k])})
          ELSE 0)

IsNameOf(name, p) ==
    \E tipo \in {58, 57}, n \in 1..TasksPerCategory :
        /\ PathOf(tipo, n) = p
        /\ name = <<DigitChar(n), ".", "c", "s", "v">>

\* C11: every row of the consolidated dataset carries a non-empty
\* ARCHIVO_ORIGEN equal to the base name of a file of the input list that
\* parsed and holds that row at that line.
C11_Provenance ==
    cons.written =>
        \A k \in 1..Len(cons.output) :
            LET r == cons.output[k] IN
            /\ Len(r.ARCHIVO_ORIGEN) > 0
            /\ \E n \in 1..cons.total_files :
                  /\ cons.parsed[n]
                  /\ IsNameOf(r.ARCHIVO_ORIGEN, cons.downloaded_files[n])
                  /\ r.line <= Len(cons.inputs[n].rows)
                  /\ cons.inputs[n].rows[r.line] = Text(r.NumeroTramite)

\* C11 witness: a dataset with rows read from two files of different names.
C11_Witness ==
    /\ cons.written
    /\ Len(cons.output) >= 2
    /\ cons.output[1].ARCHIVO_ORIGEN # cons.output[Len(cons.output)].ARCHIVO_ORIGEN
\* C12: when file_lock times out, the invocation issues no request in that
\* attempt (every earlier attempt issued one), makes no backoff sleep and no
\* further attempt, reports the error and returns False, in whichever attempt
\* the timeout occurred.
C12_LockTimeoutIsTerminal ==
    /\ [](\A i \in Inv :
            fetch[i].e = LockTimeout =>
                /\ fetch[i].requests = fetch[i].attempt
                /\ fetch[i].pc \in {"except_exc", "done", "free"}
                /\ fetch[i].pc = "done" => (fetch[i].result = "False" /\ fetch[i].reported))
    /\ [][\A i \in Inv :
            (fetch[i].e = LockTimeout /\ fetch'[i].pc # "free") =>
                /\ fetch'[i].requests = fetch[i].requests
                /\ fetch'[i].sleeps = fetch[i].sleeps
                /\ fetch'[i].attempt = fetch[i].attempt]_vars

\* C12 witness: an invocation has returned after its second attempt timed out
\* on the lock, one request after its start.
C12_Witness ==
    \E i \in Inv :
        /\ fetch[i].pc = "done"
        /\ fetch[i].e = LockTimeout
        /\ fetch[i].attempt = 1
        /\ fetch[i].requests = 1
\* The task writing path p has returned True.
Succeeded(p) ==
    \E t \in 1..par.total_files : par.urls[t] = p /\ par.futures[t].result = "True"

\* C13: descargar_en_paralelo returns only after every submitted task has
\* run to its end, whatever the outcomes of its siblings, and the list it
\* returns is exactly the destinations of the tasks that returned True, in
\* submission order.
C13_ReturnsExactlySuccesses ==
    par.pc = "returned" =>
        /\ \A t \in 1..par.total_files :
              par.futures[t].state = "done" /\ par.futures[t].result \in {"True", "False"}
        /\ par.downloaded_files = SelectSeq(par.urls, Succeeded)

\* C13 witness: the first task of a batch failed and the second, submitted
\* after it, is the returned list.
C13_Witness ==
    /\ par.pc = "returned"
    /\ par.total_files = 2
    /\ par.futures[1].result = "False"
    /\ par.downloaded_files = <<par.urls[2]>>
\* Some partition of a selected category is in the downloaded lists.
SomeFileSucceeded ==
    \E j \in 1..Len(batch.folders) :
        batch.downloaded_by_type[batch.folders[j]].files # <<>>

\* C14: a run that downloads everything returns a boolean, which is False
\* when no file succeeded and True otherwise.
C14_OverallResult ==
    (batch.pc = "returned" /\ batch.download_option = "all" /\ batch.result # "None") =>
        /\ batch.result \in {"True", "False"}
        /\ batch.result = "False" <=> ~SomeFileSucceeded

\* The last consolidation had frames to write and did not write them.
WriteFailed ==
    /\ cons.pc \in {"returned", "joined"}
    /\ cons.dataframes # <<>>
    /\ ~cons.written

\* C15: when the write of the consolidated dataset fails, the error is
\* reported and descargar_y_consolidar returns False.
C15_WriteErrorFailsRun ==
    (batch.pc = "returned" /\ WriteFailed) =>
        (cons.errors > 0 /\ batch.result = "False")

\* C16: the output file is written only if some file yields a retained row.
C16_NoRowsNoOutput == cons.written => Len(cons.output) > 0

C18_RetryThenSuccess ==
    \A i \in Inv :
        (fetch[i].pc = "done" /\ fetch[i].result = "True" /\ fetch[i].requests > 0) =>
            /\ fetch[i].attempt \in 0..(retries - 1)
            /\ fetch[i].requests = fetch[i].attempt + 1
            /\ fetch[i].sleeps = fetch[i].attempt
            /\ dest[fetch[i].output_path] = "full"
            /\ ~tmp[fetch[i].output_path].exists

\* C18 witness: 503, 503, 200: success at the third request after two sleeps.
C18_Witness ==
    \E i \in Inv :
        /\ fetch[i].pc = "done"
        /\ fetch[i].result = "True"
        /\ fetch[i].last_exception = HTTPError(503)
        /\ fetch[i].requests = 3
        /\ fetch[i].sleeps = 2
        /\ dest[fetch[i].output_path] = "full"
\* C19: an invocation with overwrite = False whose output_path exists
\* returns True in its first step, and neither that step nor any later one
\* issues a request, takes the lock, or creates, changes or removes a file.
SkipCase(i) ==
    /\ fetch[i].pc = "idle"
    /\ ~fetch[i].overwrite
    /\ dest[fetch[i].output_path] # "absent"

C19_SkipExisting ==
    /\ [][\A i \in Inv :
            (SkipCase(i) /\ fetch'[i] # fetch[i]) =>
                /\ fetch'[i] = [fetch[i] EXCEPT !.pc = "done", !.result = "True"]
                /\ fetch'[i].requests = 0
                /\ UNCHANGED file_vars]_vars
    /\ (SkipCase(1) /\ fetch[2].pc = "absent") =>
            [](/\ fetch[1].requests = 0
               /\ fetch[1].pc \in {"idle", "done"}
               /\ \A p \in Paths : lock[p].open = {} /\ ~tmp[p].exists
               /\ dest[1] = "prev")

\* C19 witness: the call has returned True with no request, and the lock file
\* an earlier run left next to the destination is still there, untouched.
C19_Witness ==
    /\ fetch[1].pc = "done"
    /\ fetch[1].result = "True"
    /\ ~fetch[1].overwrite
    /\ fetch[1].requests = 0
    /\ dest[1] = "prev"
    /\ lock[1] = OrphanLock
\* C20: every value generar_urls_por_partes returns has, for each of its
\* categories, exactly 8 x 7 = 56 tasks, one for each (year, status) pair, no
\* two tasks of the plan with the same identity or the same url, the years in
\* the outer loop and the statuses in the inner one; and every call returns
\* that same value, whatever the state it is made in.
PlanYears == <<2025, 2024, 2023, 2022, 2021, 2020, 2019, 2018>>
PlanStatuses == <<"A", "P", "B", "R", "D", "E", "N">>
C20_PlanIsCrossProduct ==
    \A r \in 1..Len(plan.results) :
        LET d == plan.results[r] IN
        /\ DOMAIN d = {58, 57, 317, 55}
        /\ \A tipo \in DOMAIN d :
              /\ Len(d[tipo]) = 8 * 7
              /\ \A y \in 1..8, st \in 1..7 :
                    Cardinality({k \in 1..Len(d[tipo]) :
                                    /\ d[tipo][k][2] = PlanYears[y]
                                    /\ d[tipo][k][3] = PlanStatuses[st]}) = 1
              /\ \A k \in 1..Len(d[tipo]) :
                    /\ d[tipo][k][2] = PlanYears[((k - 1) \div 7) + 1]
                    /\ d[tipo][k][3] = PlanStatuses[((k - 1) % 7) + 1]
        /\ \A t1, t2 \in DOMAIN d :
              \A k1 \in 1..Len(d[t1]), k2 \in 1..Len(d[t2]) :
                  d[t1][k1][1] = d[t2][k2][1] => (t1 = t2 /\ k1 = k2)
        /\ d = plan.results[1]

\* C20 witness: two calls have returned, in a folder that holds downloaded
\* files and a lock file; the eighth task of a category is (2024, "A") and
\* the last one (2018, "N").
C20_Witness ==
    /\ Len(plan.results) = 2
    /\ dest[1] = "prev"
    /\ lock[1] = OrphanLock
    /\ plan.results[2][58][8][2] = 2024
    /\ plan.results[2][58][8][3] = "A"
    /\ plan.results[2][317][56][2] = 2018
    /\ plan.results[2][317][56][3] = "N"
\* C21: outside file_lock (before the os.open that creates the file, and
\* from the end of the finally block on) no lock file created by the
\* invocation exists, whichever way the with block was left; in particular
\* none once the invocation has returned.
InFileLock(i) == fetch[i].pc \in {"locked", "close_fd", "rm_lock"}

C21_LockAlwaysReleased ==
    \A i \in Inv :
        LET l == lock[fetch[i].output_path] IN
        /\ ~InFileLock(i) => (i \notin l.open /\ ~(l.exists /\ l.by = i))
        /\ fetch[i].pc \in {"locked", "close_fd"} => (l.exists /\ l.by = i)

\* C21 witness: an invocation has returned False after a 401 that was
\* answered inside the with block; its lock file is gone.
C21_Witness ==
    \E i \in Inv :
        /\ fetch[i].pc = "done"
        /\ fetch[i].e = AuthError
        /\ ~lock[fetch[i].output_path].exists
\* C22: an invocation that is in the acquisition loop of file_lock leaves
\* it, with the lock or with the lock-timeout error, whatever the other
\* invocation and the sweep do to the lock file meanwhile; it times out only
\* after the polls of LOCK_WAIT_TIMEOUT.
Acquiring(i) == fetch[i].pc \in {"os_open", "eexist"}

C22_FileLockTerminates ==
    /\ \A i \in Inv :
          Acquiring(i) ~> (fetch[i].pc = "locked" \/ fetch[i].e = LockTimeout)
    /\ [](\A i \in Inv : fetch[i].e = LockTimeout => fetch[i].waited = LockWaitPolls)

\* C22 witness: with every lock counting as stale, an invocation finds for
\* the second time a lock file that the other invocation created.
C22_Witness ==
    \E i, j \in Inv :
        /\ i # j
        /\ STALE_LOCK_MAX_AGE <= 0
        /\ fetch[i].pc = "eexist"
        /\ fetch[i].attempt = 0
        /\ fetch[j].attempt = 1
        /\ lock[1].by = j
\* C23: a rename made by an invocation whose response advertised a length
\* puts in place a file of exactly that length; and a size mismatch is a
\* RequestException: the destination is left alone, the attempt is counted
\* and, unless it was the last one, followed by a backoff sleep.
C23_CommitOnlyIfSizeMatches ==
    /\ [][\A i \in Inv :
            LET f == fetch[i]
                p == f.output_path IN
            (f.pc = "replace" /\ fetch'[i].pc = "done" /\ f.total_size > 0) =>
                (tmp[p].size = f.total_size /\ dest'[p] = "full")]_vars
    /\ [][\A i \in Inv :
            LET f == fetch[i] IN
            (f.e = SizeMismatch /\ fetch'[i] # f) =>
                /\ f.pc \in {"except_req", "backoff"}
                /\ fetch'[i].pc \in {"backoff", "os_open", "done"}
                /\ fetch'[i].pc = "os_open" =>
                      (fetch'[i].attempt = f.attempt + 1 /\ fetch'[i].sleeps = f.sleeps + 1)
                /\ fetch'[i].pc = "done" =>
                      (fetch'[i].result = "False" /\ fetch'[i].attempt = retries)
                /\ dest'[f.output_path] = dest[f.output_path]]_vars
\* C24: once an invocation has returned, having committed its file or
\* having used up its attempts on transient errors, there is no temp file
\* next to its destination.
C24_NoTmpAfterReturn ==
    \A i \in Inv :
        (/\ fetch[i].pc = "done"
         /\ fetch[i].requests > 0
         /\ fetch[i].result = "True" \/ fetch[i].attempt = retries) =>
            ~tmp[fetch[i].output_path].exists
\* C25: the collection loop never waits for an earlier task while a later
\* one has finished: whenever a future that has not been consumed is done,
\* the loop can take a result and advance the progress counter.
C25_ConsumedAsCompleted ==
    par.pc = "collect" =>
        \A t \in par.index..par.total_files :
            par.futures[t].state = "done" => ENABLED future_result
\* C26: once a stop has been requested (the cancellation flag is set, or
\* the window has left the running state through Cancel), no invocation
\* writes a further chunk and none issues a further request.
StopRequested == gui.cancelled \/ ~gui.is_running

C26_StopHalts ==
    [][StopRequested =>
          \A i \in Inv :
              /\ fetch'[i].requests <= fetch[i].requests
              /\ fetch'[i].bytes_downloaded <= fetch[i].bytes_downloaded]_vars
\* C27: in a run with selected_modules not given and download_option 'all'
\* or 'missing', every category of the plan has a folder, and the run does
\* not raise.
C27_EveryPlannedCategoryHasFolder ==
    (~batch.selected_modules.given /\ batch.download_option \in {"all", "missing"}) =>
        /\ \A k \in 1..Len(batch.urls_por_partes) :
              \E j \in 1..Len(batch.folders) :
                  batch.folders[j] = batch.urls_por_partes[k]
        /\ batch.pc # "raised"
        /\ batch.pc = "returned" => batch.result \in {"True", "False"}
\* C28, as amended: while an invocation is inside its locked section (it
\* holds the descriptor of the lock file it created) that file is in place,
\* and no step, be it the eviction or the release of another invocation or
\* the sweep of another process, removes or replaces it.
C28_OwnerKeepsLock ==
    /\ [](\A i \in Inv :
            InLocked(i) =>
                LET l == lock[fetch[i].output_path] IN
                l.exists /\ l.by = i /\ i \in l.open)
    /\ [][\A i \in Inv :
            LET p == fetch[i].output_path IN
            InLocked(i) => (lock'[p].exists /\ lock'[p].by = i)]_vars

\* C28 as stated: a lock file an invocation created is removed only by that
\* invocation's own release (the os.remove that follows its os.close).
C28_RemovedOnlyByOwnRelease ==
    [][\A p \in Paths :
          (lock[p].exists /\ lock[p].by \in Inv /\ ~lock'[p].exists) =>
              LET i == lock[p].by IN
              fetch[i].pc = "rm_lock" /\ fetch'[i].pc # "rm_lock"]_vars

\* C28 witness: with every lock counting as stale, an invocation is inside
\* its locked section, the other one stands at the eviction and the sweep
\* may run: the file is the owner's.
C28_Witness ==
    \E i, j \in Inv :
        /\ i # j
        /\ STALE_LOCK_MAX_AGE <= 0
        /\ fetch[i].pc = "locked"
        /\ fetch[i].attempt = 1
        /\ fetch[j].pc = "eexist"
        /\ fetch[j].waited = LockWaitPolls
        /\ lock[1].by = i
\* C29: the branch that ends the retries is only entered with a 401; an
\* answer with any other error status is a RequestException, whose handler
\* sleeps the backoff and goes on to the next attempt, or ends the loop when
\* it was the fifth; a failure that names such a status was returned at the
\* cap, after five requests.
OtherStatus(e) == e # None /\ e.type = "RequestException" /\ e.status # 0

C29_Only401IsPermanent ==
    /\ [](\A i \in Inv :
            /\ fetch[i].pc = "except_perm" => fetch[i].e = AuthError
            /\ (fetch[i].e # None /\ fetch[i].e.status \in ErrorStatuses \ {401}) =>
                   fetch[i].e.type = "RequestException"
            /\ (fetch[i].pc = "done" /\ OtherStatus(fetch[i].final_error)) =>
                   (fetch[i].attempt = retries /\ fetch[i].requests = retries))
    /\ [][\A i \in Inv :
            LET f == fetch[i] IN
            (f.pc = "close_fd" /\ OtherStatus(f.e) /\ fetch'[i] # f) =>
                fetch'[i].after = "except_req"]_vars
    /\ [][\A i \in Inv :
            LET f == fetch[i] IN
            (f.pc = "except_req" /\ OtherStatus(f.e) /\ fetch'[i] # f) =>
                IF f.attempt < retries - 1
                THEN fetch'[i].pc = "backoff" /\ fetch'[i].sleep_time >= retry_delay
                ELSE fetch'[i].pc = "done" /\ fetch'[i].final_error = f.e]_vars

\* C29 witness: five answers, the last of them 404: the invocation gave up
\* at the cap after four backoff sleeps.
C29_Witness ==
    \E i \in Inv :
        /\ fetch[i].pc = "done"
        /\ fetch[i].result = "False"
        /\ fetch[i].final_error = HTTPError(404)
        /\ fetch[i].requests = 5
        /\ fetch[i].sleeps = 4
\* C30: in 'missing' mode the list handed to the consolidation of a category
\* is exactly the partitions of that category that were not on disk when the
\* run started and that this run has downloaded, in planning order; the
\* consolidation reads no other file; and with an empty list it reads
\* nothing and writes nothing.
C30_MissingConsolidatesOnlyNew ==
    (batch.download_option = "missing" /\ batch.pc = "consolidating") =>
        LET tipo == batch.folders[batch.k]
            new(p) == p \notin batch.preexisting /\ dest[p] # "absent" IN
        /\ cons.downloaded_files = SelectSeq(UrlsOf(tipo), new)
        /\ cons.index <= Len(cons.downloaded_files)
        /\ Len(cons.inputs) = cons.index
        /\ \A n \in 1..Len(cons.downloaded_files) :
              cons.downloaded_files[n] \notin batch.preexisting
        /\ cons.downloaded_files = <<>> =>
              (~cons.written /\ cons.inputs = <<>> /\ cons.pc \in {"idle", "returned"})

\* C30 witness: the first partition of the category was on disk, the second
\* was missing and has been downloaded; the consolidation has read the second
\* one alone and written the consolidated file from it.
C30_Witness ==
    /\ batch.download_option = "missing"
    /\ batch.pc = "consolidating"
    /\ batch.folders[batch.k] = 58
    /\ batch.preexisting \cap {1, 2} = {1}
    /\ cons.downloaded_files = <<2>>
    /\ cons.pc = "returned"
    /\ Len(cons.inputs) = 1
    /\ cons.written
=============================================================================
